---- MODULE Spec2Model ----
(***************************************************************************)
(* Verification model of the AgentForge core: the two-stage IntentRouter   *)
(* (embedding similarity with a language-model fallback), the token        *)
(* counter, the three response quality scorers and the category handlers   *)
(* built on BaseAgent.run.                                                 *)
(*                                                                         *)
(* Numeric conventions: similarities are integers in hundredths            *)
(* (0.45 is 45); scores are integers in ten-thousandths (0.4 is 4000), so  *)
(* that the mean of four sub-scores is exact.                              *)
(***************************************************************************)
EXTENDS Integers, Sequences, FiniteSets, TLC

VARIABLES
    \* ---- IntentRouter (src/core/intent_router.py) ----
    routes,            \* self.routes: insertion-ordered phrase -> label
    route_embeddings,  \* self.route_embeddings: one embedding per phrase
    llm,               \* self.llm: the kind of wrapper get_llm() returned
    rpc,               \* position of the current route call
    user_input,        \* argument of the current route call
    scores,            \* similarity of the input to each stored embedding
    response,          \* local variable `response` of the fallback path
    result,            \* value returned by route
    invocations,       \* outcomes of self.llm.invoke in this call, in order
    log,               \* records emitted through self.log.info in this call
    log_attempts,      \* number of self.log.info calls made in this call
    \* ---- simple_token_count (src/agents/prompt_optimizer.py) ----
    tok_pc,            \* "call" before the function has run, "done" after
    tok_text,          \* the argument `text`
    tok_count,         \* the value returned
    \* ---- the quality scorers (src/agents/*.py) ----
    sc_pc,             \* "call" before the scorer has run, "done" after
    sc_fn,             \* which scorer is called
    sc_request,        \* first argument: the request text
    sc_response,       \* second argument: the response text
    sc_score,          \* the QualityScore returned
    sc_metrics,        \* QualityScore.to_dict() of it
    \* ---- the category handlers (src/agents/*.py, src/core/base_agent.py) ----
    memory,            \* the conversation log: user id -> turns, in order
    ex_pc,             \* per call: position in execute / run
    ex_agent,          \* the class of the handler object (self)
    ex_user,           \* the user id the handler object was built for
    ex_task,           \* per call: argument `task`
    ex_response,       \* per call: local `response`
    ex_generation,     \* per call: outcomes of self.llm.invoke, in order
    ex_result,         \* per call: the Handler Result returned
    \* ---- extract_keywords (src/tools/keyword_extractor.py) ----
    rake,              \* the module-level Rake instance
    kw_pc,             \* per call: position in extract_keywords
    kw_text,           \* per call: argument `text`
    kw_top_k,          \* per call: argument `top_k`
    kw_result          \* per call: the list returned

routerVars == <<routes, route_embeddings, llm, rpc, user_input, scores,
                response, result, invocations, log, log_attempts>>

tokenVars == <<tok_pc, tok_text, tok_count>>

scoreVars == <<sc_pc, sc_fn, sc_request, sc_response, sc_score, sc_metrics>>

execVars == <<memory, ex_pc, ex_agent, ex_user, ex_task, ex_response,
              ex_generation, ex_result>>

keywordVars == <<rake, kw_pc, kw_text, kw_top_k, kw_result>>

\* the graph module (src/core/graph.py)
VARIABLES
    gr_pc,          \* "import", "import_raised": the module body's position
    gr_executed,    \* the agent nodes a graph run has executed, in order
    sv_pc,          \* "idle", "call", "returned": a call of supervisor_node
    sv_message,     \* state["messages"][-1].content, a list of words
    sv_result       \* the value supervisor_node returned

graphVars == <<gr_pc, gr_executed, sv_pc, sv_message, sv_result>>

\* extract_sections (src/tools/resume_parser.py)
VARIABLES
    rs_pc,          \* "idle", "loop", "returned": a call of extract_sections
    rs_text,        \* resume_text.split('\n'): the lines, each a list of
                    \* characters
    rs_index,       \* the position of the for loop in lines
    rs_current,     \* current_section
    rs_sections     \* sections

resumeVars == <<rs_pc, rs_text, rs_index, rs_current, rs_sections>>

vars == <<routerVars, tokenVars, scoreVars, execVars, keywordVars, graphVars,
          resumeVars>>

\* ------------------------------------------------------------------------
\* Bounds of the model
\* ------------------------------------------------------------------------
MaxReplyLen == 2
MaxTextLen == 4
MaxNumbers == 15
MaxUrgencies == 11
NumCalls == 2
MaxWords == 2
MaxLines == 3

\* ------------------------------------------------------------------------
\* Texts of the generation function's replies: a text is a sequence of
\* pieces, each piece either one whitespace character or a chunk that
\* neither starts nor ends with whitespace.
\* ------------------------------------------------------------------------
Whitespace == {" "}

ReplyPieces == {" ", "EmailPrioritizerAgent", "ContentRewriterAgent",
                "I think it's the email one"}

RECURSIVE SeqsUpTo(_, _)
SeqsUpTo(S, n) ==
    IF n = 0 THEN {<<>>}
    ELSE LET shorter == SeqsUpTo(S, n - 1)
         IN  shorter \cup {Append(s, x) : s \in shorter, x \in S}

ReplyTexts == SeqsUpTo(ReplyPieces, MaxReplyLen)

RECURSIVE Join(_)
Join(pieces) == IF pieces = <<>> THEN "" ELSE Head(pieces) \o Join(Tail(pieces))

RECURSIVE lstrip(_)
lstrip(pieces) ==
    IF pieces # <<>> /\ Head(pieces) \in Whitespace
    THEN lstrip(Tail(pieces)) ELSE pieces

RECURSIVE rstrip(_)
rstrip(pieces) ==
    IF pieces # <<>> /\ pieces[Len(pieces)] \in Whitespace
    THEN rstrip(SubSeq(pieces, 1, Len(pieces) - 1)) ELSE pieces

\* str.strip(): the text without its leading and trailing whitespace
strip(pieces) == Join(rstrip(lstrip(pieces)))

\* ------------------------------------------------------------------------
\* IntentRouter.__init__
\* ------------------------------------------------------------------------
PromptOptimizerAgent == "PromptOptimizerAgent"
ContentRewriterAgent == "ContentRewriterAgent"
EmailPrioritizerAgent == "EmailPrioritizerAgent"

\* self.routes = {...}: a dict keeps its insertion order
RouteCatalog ==
    << [phrase |-> "optimize prompt",  label |-> PromptOptimizerAgent],
       [phrase |-> "improve prompt",   label |-> PromptOptimizerAgent],
       [phrase |-> "better prompt",    label |-> PromptOptimizerAgent],
       [phrase |-> "rewrite prompt",   label |-> PromptOptimizerAgent],
       [phrase |-> "resume",           label |-> ContentRewriterAgent],
       [phrase |-> "cv",               label |-> ContentRewriterAgent],
       [phrase |-> "linkedin",         label |-> ContentRewriterAgent],
       [phrase |-> "job description",  label |-> ContentRewriterAgent],
       [phrase |-> "tailor resume",    label |-> ContentRewriterAgent],
       [phrase |-> "email",            label |-> EmailPrioritizerAgent],
       [phrase |-> "inbox",            label |-> EmailPrioritizerAgent],
       [phrase |-> "prioritize",       label |-> EmailPrioritizerAgent],
       [phrase |-> "urgent",           label |-> EmailPrioritizerAgent] >>

Phrases == {RouteCatalog[i].phrase : i \in DOMAIN RouteCatalog}

\* the category labels of a catalog
Labels(catalog) == {catalog[i].label : i \in DOMAIN catalog}

\* list(self.routes.keys())
keys(catalog) == [i \in DOMAIN catalog |-> catalog[i].phrase]

\* self.routes[key]
Lookup(catalog, key) ==
    LET i == CHOOSE j \in DOMAIN catalog : catalog[j].phrase = key
    IN  catalog[i].label

\* mutant: the embeddings are stored in the reverse of the key order
EncodePhrasesReversed(phrases) ==
    [i \in DOMAIN phrases |-> [of |-> phrases[Len(phrases) + 1 - i]]]

\* self.encoder.encode(list(self.routes.keys())): the embedding of a catalog
\* phrase is identified by the phrase it encodes
EncodePhrases(phrases) == [i \in DOMAIN phrases |-> [of |-> phrases[i]]]

\* get_llm() returns either a chat model (invoke returns a message object
\* with .content) or a text model (invoke returns a plain str)
LlmKinds == {"chat", "text"}

\* ------------------------------------------------------------------------
\* Inputs of route.  A user input is represented by the cosine similarity
\* (in hundredths) its embedding has to the embedding of each catalog
\* phrase: a base similarity everywhere, and up to two peaks.
\* ------------------------------------------------------------------------
BaseSim == 20
HighSim == 90

\* the confidence threshold 0.45, in hundredths
Threshold == 45

FirstPeakSims == {BaseSim, Threshold, Threshold + 1, HighSim}
SecondPeakSims == {BaseSim, Threshold + 1, HighSim}

Profile(i, vi, j, vj) ==
    [p \in Phrases |->
        IF p = RouteCatalog[j].phrase THEN vj
        ELSE IF p = RouteCatalog[i].phrase THEN vi
        ELSE BaseSim]

UserInputs ==
    {[sim |-> Profile(i, vi, j, vj)] :
        i \in DOMAIN RouteCatalog, vi \in FirstPeakSims,
        j \in DOMAIN RouteCatalog, vj \in SecondPeakSims}

\* util.cos_sim(input_emb, self.route_embeddings)[0]
cos_sim(input_emb, embeddings) ==
    [k \in DOMAIN embeddings |-> input_emb.sim[embeddings[k].of]]

\* scores.max()
max(s) == CHOOSE v \in {s[k] : k \in DOMAIN s} : \A k \in DOMAIN s : s[k] <= v

\* mutant: the last index holding the maximum
argmax_last(s) == CHOOSE k \in DOMAIN s :
                    /\ s[k] = max(s)
                    /\ \A m \in DOMAIN s : s[m] = max(s) => m <= k

\* int(np.argmax(scores)): the first index holding the maximum (0-based in
\* the source, 1-based here)
argmax(s) == CHOOSE k \in DOMAIN s :
                /\ s[k] = max(s)
                /\ \A m \in DOMAIN s : s[m] = max(s) => k <= m

\* mutant: the threshold set to the high similarity instead of 0.45
ConfidentAboveHigh(s) == max(s) > HighSim

\* mutant: a maximum of exactly 0.45 is trusted too
ConfidentAtThreshold(s) == max(s) >= Threshold

\* scores.max() > 0.45
Confident(s) == max(s) > Threshold

\* mutant: the key list indexed one place after best_idx
SemanticTargetOffByOne(catalog, s) ==
    Lookup(catalog,
           keys(catalog)[IF argmax(s) = Len(catalog) THEN 1 ELSE argmax(s) + 1])

\* target = self.routes[list(self.routes.keys())[best_idx]]
SemanticTarget(catalog, s) == Lookup(catalog, keys(catalog)[argmax(s)])

\* ------------------------------------------------------------------------
\* The generation function seen from route: one self.llm.invoke(prompt)
\* either raises or replies with a text.
\* ------------------------------------------------------------------------
None == "<None>"

InvokeOutcomes ==
    {[raised |-> TRUE, text |-> <<>>]} \cup
    {[raised |-> FALSE, text |-> t] : t \in ReplyTexts}

\* str(reply): a plain str is itself; a message object prints its fields
str(kind, text) ==
    IF kind = "text" THEN text ELSE <<"content='">> \o text \o <<"'">>

\* mutant: the reply's content taken without .strip()
FirstAttemptNoStrip(kind, outcome) ==
    IF ~outcome.raised /\ kind = "chat"
    THEN [ok |-> TRUE, response |-> Join(outcome.text)]
    ELSE [ok |-> FALSE, response |-> None]

\* mutant: the retry is made whether or not the first attempt succeeded
FirstAttemptAlwaysRetries(kind, outcome) ==
    [ok |-> FALSE, response |-> None]

\* response = self.llm.invoke(prompt).content.strip()
\* succeeds when invoke returns an object that has .content
FirstAttempt(kind, outcome) ==
    IF ~outcome.raised /\ kind = "chat"
    THEN [ok |-> TRUE, response |-> strip(outcome.text)]
    ELSE [ok |-> FALSE, response |-> None]

\* the label route falls back to when both attempts raise
DefaultResponse == PromptOptimizerAgent

\* mutant: the inner except leaves response unset
SecondAttemptNoDefault(kind, outcome) ==
    IF outcome.raised THEN None
    ELSE strip(str(kind, outcome.text))

\* except Exception: try: response = str(self.llm.invoke(prompt)).strip()
\*                    except Exception: response = "PromptOptimizerAgent"
SecondAttempt(kind, outcome) ==
    IF outcome.raised THEN DefaultResponse
    ELSE strip(str(kind, outcome.text))

\* ------------------------------------------------------------------------
\* self.log.info: a structured call first, a plain-string call when that
\* raises, nothing when that raises too.
\* ------------------------------------------------------------------------
LogOutcomes == {"structured", "plain", "failed"}

\* mutant: the record is emitted without the resolved target
EmitWithoutTarget(outcome, record) ==
    IF outcome = "structured"
    THEN <<[form |-> "structured"] @@ [record EXCEPT !.target = None]>>
    ELSE IF outcome = "plain"
    THEN <<[form |-> "plain"] @@ [record EXCEPT !.target = None]>>
    ELSE <<>>

Emit(outcome, record) ==
    IF outcome = "structured" THEN <<[form |-> "structured"] @@ record>>
    ELSE IF outcome = "plain" THEN <<[form |-> "plain"] @@ record>>
    ELSE <<>>

Attempts(outcome) == IF outcome = "structured" THEN 1 ELSE 2

\* ------------------------------------------------------------------------
\* IntentRouter: construction and the steps of one route call
\* ------------------------------------------------------------------------
RouterIdle ==
    /\ rpc = "idle"
    /\ user_input = None
    /\ scores = <<>>
    /\ response = None
    /\ result = None
    /\ invocations = <<>>
    /\ log = <<>>
    /\ log_attempts = 0

RouterInit ==
    /\ routes = RouteCatalog
    /\ route_embeddings = EncodePhrases(keys(RouteCatalog))
    /\ llm \in LlmKinds
    /\ RouterIdle

\* mutant: an encoder failure is logged before it propagates
RouteEncodeLogsFailure ==
    /\ rpc = "idle"
    /\ \E u \in UserInputs, encoded \in BOOLEAN :
         /\ user_input' = u
         /\ IF encoded
            THEN /\ scores' = cos_sim(u, route_embeddings)
                 /\ rpc' = "scored"
                 /\ UNCHANGED <<log, log_attempts>>
            ELSE /\ scores' = scores
                 /\ rpc' = "raised"
                 /\ log' = Emit("structured", [method |-> "error", target |-> None])
                 /\ log_attempts' = 1
    /\ UNCHANGED <<routes, route_embeddings, llm, response, result, invocations>>

\* input_emb = self.encoder.encode(user_input); scores = util.cos_sim(...)[0]
\* An encoder failure propagates out of route.
RouteEncode ==
    /\ rpc = "idle"
    /\ \E u \in UserInputs, encoded \in BOOLEAN :
         /\ user_input' = u
         /\ IF encoded
            THEN /\ scores' = cos_sim(u, route_embeddings)
                 /\ rpc' = "scored"
            ELSE /\ scores' = scores
                 /\ rpc' = "raised"
    /\ UNCHANGED <<routes, route_embeddings, llm, response, result,
                   invocations, log, log_attempts>>

\* mutant: the exception of the second log attempt is not caught
RouteSemanticLogAborts ==
    /\ rpc = "scored"
    /\ Confident(scores)
    /\ LET target == SemanticTarget(routes, scores)
       IN  \E o \in LogOutcomes :
                /\ log' = Emit(o, [method |-> "semantic", target |-> target,
                                   confidence |-> max(scores)])
                /\ log_attempts' = Attempts(o)
                /\ IF o = "failed"
                   THEN result' = result /\ rpc' = "raised"
                   ELSE result' = target /\ rpc' = "returned"
    /\ UNCHANGED <<routes, route_embeddings, llm, user_input, scores,
                   response, invocations>>

\* if scores.max() > 0.45: ... log ... return target
RouteSemantic ==
    /\ rpc = "scored"
    /\ Confident(scores)
    /\ LET target == SemanticTarget(routes, scores)
       IN  /\ \E o \in LogOutcomes :
                /\ log' = Emit(o, [method |-> "semantic", target |-> target,
                                   confidence |-> max(scores)])
                /\ log_attempts' = Attempts(o)
           /\ result' = target
    /\ rpc' = "returned"
    /\ UNCHANGED <<routes, route_embeddings, llm, user_input, scores,
                   response, invocations>>

\* the first try block of the fallback
RouteInvoke ==
    /\ rpc = "scored"
    /\ ~Confident(scores)
    /\ \E o \in InvokeOutcomes :
         /\ invocations' = Append(invocations, o)
         /\ LET first == FirstAttempt(llm, o)
            IN  IF first.ok
                THEN response' = first.response /\ rpc' = "responded"
                ELSE response' = response /\ rpc' = "retry"
    /\ UNCHANGED <<routes, route_embeddings, llm, user_input, scores,
                   result, log, log_attempts>>

\* the except block of the fallback
RouteRetry ==
    /\ rpc = "retry"
    /\ \E o \in InvokeOutcomes :
         /\ invocations' = Append(invocations, o)
         /\ response' = SecondAttempt(llm, o)
    /\ rpc' = "responded"
    /\ UNCHANGED <<routes, route_embeddings, llm, user_input, scores,
                   result, log, log_attempts>>

\* mutant: the fallback's answer is stored in the catalog for the next call
RouteFallbackReturnLearns ==
    /\ rpc = "responded"
    /\ \E o \in LogOutcomes :
         /\ log' = Emit(o, [method |-> "llm_fallback", target |-> response])
         /\ log_attempts' = Attempts(o)
    /\ result' = response
    /\ rpc' = "returned"
    /\ routes' = [routes EXCEPT ![1].label = response]
    /\ UNCHANGED <<route_embeddings, llm, user_input, scores,
                   response, invocations>>

\* log the fallback decision; return response
RouteFallbackReturn ==
    /\ rpc = "responded"
    /\ \E o \in LogOutcomes :
         /\ log' = Emit(o, [method |-> "llm_fallback", target |-> response])
         /\ log_attempts' = Attempts(o)
    /\ result' = response
    /\ rpc' = "returned"
    /\ UNCHANGED <<routes, route_embeddings, llm, user_input, scores,
                   response, invocations>>

\* the caller takes the result (or the error); the next call starts afresh
RouteDone ==
    /\ rpc \in {"returned", "raised"}
    /\ rpc' = "idle"
    /\ user_input' = None
    /\ scores' = <<>>
    /\ response' = None
    /\ result' = None
    /\ invocations' = <<>>
    /\ log' = <<>>
    /\ log_attempts' = 0
    /\ UNCHANGED <<routes, route_embeddings, llm>>

RouteNext ==
    \/ RouteEncode
    \/ RouteSemantic
    \/ RouteInvoke
    \/ RouteRetry
    \/ RouteFallbackReturn
    \/ RouteDone

\* ------------------------------------------------------------------------
\* simple_token_count.  A text is a sequence of characters; the argument is
\* either a text or Python's None.
\* ------------------------------------------------------------------------
AsciiAlnum == {"a", "7"}          \* characters of [A-Za-z0-9]
SpaceChars == {" "}               \* characters of \s
Punctuation == {",", "_"}         \* neither alphanumeric nor whitespace
NonAsciiLetters == {"é"}          \* letters outside [A-Za-z0-9]
Chars == AsciiAlnum \cup SpaceChars \cup Punctuation \cup NonAsciiLetters

TokenArguments ==
    {[isNone |-> TRUE, chars |-> <<>>]} \cup
    {[isNone |-> FALSE, chars |-> t] : t \in SeqsUpTo(Chars, MaxTextLen)}

\* the end of the longest match of [A-Za-z0-9]+ starting at position i
RECURSIVE RunEnd(_, _)
RunEnd(chars, i) ==
    IF i < Len(chars) /\ chars[i + 1] \in AsciiAlnum
    THEN RunEnd(chars, i + 1) ELSE i

\* re.findall(r"[A-Za-z0-9]+|[^\sA-Za-z0-9]", text): the non-overlapping
\* matches, leftmost first, as <<first, last>> positions.  The first
\* alternative matches greedily, so a match of it starts where a character
\* of [A-Za-z0-9] is not preceded by one and runs to the end of the run;
\* the second alternative matches any single character that is neither
\* whitespace nor of [A-Za-z0-9]; whitespace matches nothing.
findall(chars) ==
    {<<i, RunEnd(chars, i)>> :
        i \in {j \in DOMAIN chars :
                  /\ chars[j] \in AsciiAlnum
                  /\ (j = 1 \/ chars[j - 1] \notin AsciiAlnum)}}
    \cup
    {<<i, i>> :
        i \in {j \in DOMAIN chars : chars[j] \notin SpaceChars \cup AsciiAlnum}}

\* if not text: return 0;  return len(re.findall(...))
simple_token_count(text) ==
    IF text.isNone \/ text.chars = <<>> THEN 0
    ELSE Cardinality(findall(text.chars))

TokenIdle ==
    /\ tok_pc = "idle"
    /\ tok_text = [isNone |-> TRUE, chars |-> <<>>]
    /\ tok_count = 0

TokenInit ==
    /\ tok_pc = "call"
    /\ tok_text \in TokenArguments
    /\ tok_count = 0

SimpleTokenCount ==
    /\ tok_pc = "call"
    /\ tok_count' = simple_token_count(tok_text)
    /\ tok_pc' = "done"
    /\ UNCHANGED tok_text

\* ------------------------------------------------------------------------
\* Texts given to the scorers.  A text is represented by what the scorers
\* read from it:
\*   items    the words, phrases and double-quoted names written in it
\*   numbers  its numeric literals in order, each "plain", "percent" (matched
\*            by the percent pattern) or "urgency" (the value of an
\*            "urgency_score": <digits> field)
\*   array    whether it starts, after optional whitespace, with "["
\*   words    the number of words it is made of; its characters, for token
\*            counting, are that many words separated by single spaces
\* ------------------------------------------------------------------------
Quoted(name) == "\"" \o name \o "\""

\* str.lower() of the items written with capitals
Capitalised ==
    [x \in {"Context", "Tone", "Led", Quoted("Sales"), Quoted("HR")} |->
        CASE x = "Context" -> "context"
          [] x = "Tone" -> "tone"
          [] x = "Led" -> "led"
          [] x = Quoted("Sales") -> Quoted("sales")
          [] x = Quoted("HR") -> Quoted("hr")]

lower_item(x) == IF x \in DOMAIN Capitalised THEN Capitalised[x] ELSE x

\* text.lower()
lower(text) == [text EXCEPT !.items = {lower_item(x) : x \in text.items}]

\* items that contain a shorter keyword as a substring
Substrings ==
    {<<"constraints", "constraint">>, <<"parameters", "parameter">>,
     <<"handled", "led">>, <<"email", "ai">>, <<"metadata", "data">>}

\* `s in text`
contains(text, s) ==
    \/ \E x \in text.items : x = s \/ x = Quoted(s) \/ <<x, s>> \in Substrings
    \/ /\ s \in {Quoted("urgency_score"), "urgency_score"}
       /\ \E i \in DOMAIN text.numbers :
             text.numbers[i].kind \in {"urgency", "urgency_long"}

\* re.search(r"\bword\b", text)
search_word(text, word) ==
    \E x \in text.items : x = word \/ x = Quoted(word)

\* n words separated by single spaces
Filler(n) == [i \in 1..(IF n = 0 THEN 0 ELSE 2 * n - 1) |->
                IF i % 2 = 1 THEN "a" ELSE " "]

\* the first n elements of a list, as a set
Prefix(list, n) == {list[i] : i \in 1..n}

Literals(n, kind, value) == [i \in 1..n |-> [kind |-> kind, value |-> value]]

Text(items, numbers, array, nwords) ==
    [items |-> items, numbers |-> numbers, array |-> array, words |-> nwords]

\* the text as the argument of simple_token_count
chars_of(text) == [isNone |-> FALSE, chars |-> Filler(text.words)]

EmptyText == Text({}, <<>>, FALSE, 0)

Min(a, b) == IF a <= b THEN a ELSE b

\* round(x, 3) of a value in ten-thousandths; a value halfway between two
\* thousandths goes up or down with the binary representation of the float
round3(x, up) ==
    IF x % 10 = 5 THEN (IF up THEN x + 5 ELSE x - 5)
    ELSE IF x % 10 < 5 THEN x - (x % 10)
    ELSE x + (10 - (x % 10))

\* ---- score_prompt_optimization (src/agents/prompt_optimizer.py) ----
CoStarKeywords ==
    <<"context", "objective", "style", "tone", "audience", "response format">>

PromptFields == <<"original_prompt", "optimized_prompt", "explanation">>

\* the word patterns of the specificity list; each is a set of alternatives
SpecificityWords ==
    << {"constraint", "constraints"}, {"parameter", "parameters"}, {"style"},
       {"tone"}, {"audience"}, {"focal length"}, {"aperture"}, {"lighting"},
       {"composition"}, {"brand"} >>

Count(S) == Cardinality(S)

co_star_hits(optimized) ==
    Count({i \in DOMAIN CoStarKeywords :
              contains(lower(optimized), CoStarKeywords[i])})

structure_hits(optimized) ==
    Count({i \in DOMAIN PromptFields :
              contains(optimized, Quoted(PromptFields[i]))})

\* sum(1 for pat in [...] if re.search(pat, optimized.lower()))
specificity_signals(optimized) ==
    (IF lower(optimized).numbers # <<>> THEN 1 ELSE 0)
    + Count({i \in DOMAIN SpecificityWords :
                \E w \in SpecificityWords[i] : search_word(lower(optimized), w)})

\* mutant: the band boundaries 60 and 400 fall in the penalised bands
clarity_of_inclusive(opt_tokens) ==
    IF opt_tokens <= 60 THEN 6000
    ELSE IF opt_tokens >= 400 THEN 7000
    ELSE 9000

clarity_of(opt_tokens) ==
    IF opt_tokens < 60 THEN 6000
    ELSE IF opt_tokens > 400 THEN 7000
    ELSE 9000

\* mutant: the structure baseline 0.6 instead of 0.4
score_prompt_optimization_baseline(original, optimized) ==
    LET completeness == Min(10000, 1500 * co_star_hits(optimized) + 1000)
        opt_tokens == simple_token_count(chars_of(optimized))
        clarity == clarity_of(opt_tokens)
        structure == 6000 + 2000 * structure_hits(optimized)
        specificity == Min(10000, 1000 * specificity_signals(optimized) + 4000)
        overall == (completeness + clarity + structure + specificity) \div 4
    IN  [completeness |-> completeness, clarity |-> clarity,
         structure |-> structure, specificity |-> specificity,
         overall |-> overall]

\* mutant: overall weighs completeness twice
score_prompt_optimization_weighted(original, optimized) ==
    LET completeness == Min(10000, 1500 * co_star_hits(optimized) + 1000)
        opt_tokens == simple_token_count(chars_of(optimized))
        clarity == clarity_of(opt_tokens)
        structure == 4000 + 2000 * structure_hits(optimized)
        specificity == Min(10000, 1000 * specificity_signals(optimized) + 4000)
        overall == (2 * completeness + clarity + structure + specificity) \div 5
    IN  [completeness |-> completeness, clarity |-> clarity,
         structure |-> structure, specificity |-> specificity,
         overall |-> overall]

\* mutant: completeness also counts the CO-STAR words of the request
score_prompt_optimization_request(original, optimized) ==
    LET completeness ==
            Min(10000, 1500 * co_star_hits(optimized) + 1000
                       + (IF original = EmptyText THEN 0 ELSE 500))
        opt_tokens == simple_token_count(chars_of(optimized))
        clarity == clarity_of(opt_tokens)
        structure == 4000 + 2000 * structure_hits(optimized)
        specificity == Min(10000, 1000 * specificity_signals(optimized) + 4000)
        overall == (completeness + clarity + structure + specificity) \div 4
    IN  [completeness |-> completeness, clarity |-> clarity,
         structure |-> structure, specificity |-> specificity,
         overall |-> overall]

score_prompt_optimization(original, optimized) ==
    LET completeness == Min(10000, 1500 * co_star_hits(optimized) + 1000)
        opt_tokens == simple_token_count(chars_of(optimized))
        clarity == clarity_of(opt_tokens)
        structure == 4000 + 2000 * structure_hits(optimized)
        specificity == Min(10000, 1000 * specificity_signals(optimized) + 4000)
        overall == (completeness + clarity + structure + specificity) \div 4
    IN  [completeness |-> completeness, clarity |-> clarity,
         structure |-> structure, specificity |-> specificity,
         overall |-> overall]

\* ---- score_resume_rewrite (src/agents/content_optimizer.py) ----
action_verbs ==
    <<"led", "built", "designed", "shipped", "delivered", "optimized",
      "architected", "improved", "automated", "launched", "reduced",
      "increased", "enhanced", "streamlined", "developed", "managed">>

impact_words ==
    <<"impact", "resulted", "outcome", "growth", "savings", "revenue",
      "efficiency">>

RoleKeywords ==
    <<"data", "ml", "machine learning", "engineer", "developer", "product",
      "ai">>

required_keys ==
    <<"professional_summary", "experience", "skills", "education",
      "tailoring_notes">>

verb_hits(lower_out) ==
    Count({i \in DOMAIN action_verbs : contains(lower_out, action_verbs[i])})

impact_hits(lower_out) ==
    Count({i \in DOMAIN impact_words : contains(lower_out, impact_words[i])})

\* re.findall(r"\b\d+(?:\.\d+)?\b", lower_out)
numbers_of(lower_out) == lower_out.numbers

\* re.findall(r"\b\d+(?:\.\d+)?\s*%\b", lower_out)
percents_of(lower_out) ==
    SelectSeq(lower_out.numbers, LAMBDA n : n.kind = "percent")

\* set(re.findall(r"\b(data|ml|...|ai)\b", lower_in))
role_keywords(lower_in) ==
    {RoleKeywords[i] : i \in {j \in DOMAIN RoleKeywords :
                                 search_word(lower_in, RoleKeywords[j])}}

alignment_hits(lower_in, lower_out) ==
    Count({rk \in role_keywords(lower_in) : contains(lower_out, rk)})

key_hits(output_json_text) ==
    Count({i \in DOMAIN required_keys :
              contains(output_json_text, Quoted(required_keys[i]))})

score_resume_rewrite(input_text, output_json_text) ==
    LET lower_in == lower(input_text)
        lower_out == lower(output_json_text)
        achievements_signal ==
            Min(10000, 500 * verb_hits(lower_out)
                       + 700 * impact_hits(lower_out) + 4000)
        metric_density ==
            Min(10000, 500 * Len(numbers_of(lower_out))
                       + 1000 * Len(percents_of(lower_out)) + 3000)
        tailoring_alignment ==
            Min(10000, 2500 * alignment_hits(lower_in, lower_out) + 4000)
        json_compliance == 2000 + 1500 * key_hits(output_json_text)
        overall == (achievements_signal + metric_density
                    + tailoring_alignment + json_compliance) \div 4
    IN  [achievements_signal |-> achievements_signal,
         metric_density |-> metric_density,
         tailoring_alignment |-> tailoring_alignment,
         json_compliance |-> json_compliance,
         overall |-> overall]

\* ---- score_email_prioritization (src/agents/email_prioritizer.py) ----
triage_field_names ==
    <<"sender", "subject", "urgency_score", "category", "recommended_action">>

known_cats ==
    <<"sales", "hr", "finance", "spam", "newsletter", "support", "legal",
      "product">>

triage_fields(output_json_text) ==
    Count({i \in DOMAIN triage_field_names :
              contains(output_json_text, Quoted(triage_field_names[i]))})

\* an "urgency_score" field whose digit string is longer than int() of a
\* str converts (sys.get_int_max_str_digits(), 4300 by default); of its
\* value only its being above 10 is kept
LongUrgency == [kind |-> "urgency_long", value |-> 10 + 1]

\* int(x) raises ValueError for such a digit string on the interpreters
\* that limit the conversion (3.10.7 and later, 3.11 and later)
int_raises(output_json_text, limited) ==
    /\ limited
    /\ \E i \in DOMAIN output_json_text.numbers :
          output_json_text.numbers[i].kind = "urgency_long"

\* [int(x) for x in re.findall(r'"urgency_score"\s*:\s*(\d+)', text)]
urgencies_of(output_json_text) ==
    LET fields == SelectSeq(output_json_text.numbers,
                            LAMBDA n : n.kind \in {"urgency", "urgency_long"})
    IN  [i \in DOMAIN fields |-> fields[i].value]

\* mutant: every urgency value counts, whatever its range
valid_of_any(urgencies) == urgencies

\* valid = [u for u in urgencies if 1 <= u <= 10]
valid_of(urgencies) == SelectSeq(urgencies, LAMBDA u : 1 <= u /\ u <= 10)

urgency_consistency_of(urgencies) ==
    IF urgencies = <<>> THEN 5000
    ELSE Min(10000, 5000 + 500 * Len(valid_of(urgencies)))

cat_hits(lo) ==
    Count({i \in DOMAIN known_cats : contains(lo, Quoted(known_cats[i]))})

score_email_prioritization(input_text, output_json_text) ==
    LET lo == lower(output_json_text)
        triage_accuracy_signal ==
            Min(10000, 1500 * triage_fields(output_json_text) + 4000)
        urgencies == urgencies_of(output_json_text)
        urgency_consistency == urgency_consistency_of(urgencies)
        category_precision == Min(10000, 1000 * cat_hits(lo) + 4000)
        json_array_signal == IF output_json_text.array THEN 1 ELSE 0
        action_list_signal ==
            IF contains(lo, "do these first")
               \/ contains(lo, "prioritized action list") THEN 1 ELSE 0
        json_validity ==
            4000 + 3000 * json_array_signal + 2000 * action_list_signal
        overall == (triage_accuracy_signal + urgency_consistency
                    + category_precision + json_validity) \div 4
    IN  [triage_accuracy_signal |-> triage_accuracy_signal,
         urgency_consistency |-> urgency_consistency,
         category_precision |-> category_precision,
         json_validity |-> json_validity,
         overall |-> overall]

\* QualityScore.to_dict
to_dict(score, up) ==
    [k \in DOMAIN score |-> round3(score[k], up)]

\* ------------------------------------------------------------------------
\* The (request, response) pairs the scorers are applied to
\* ------------------------------------------------------------------------
QuotedPrefix(list, n) == {Quoted(list[i]) : i \in 1..n}

SpecificityList ==
    <<"constraints", "parameter", "style", "tone", "audience", "focal length",
      "aperture", "lighting", "composition", "brand">>

\* token counts around the two clarity bands, and one well inside
WordCounts == {59, 60, 150, 400, 401}

PromptExtras == {{}, {"Context", "Tone", "parameters"}}

PromptResponses ==
    {EmptyText} \cup
    {Text(Prefix(CoStarKeywords, a) \cup Prefix(SpecificityList, b)
            \cup QuotedPrefix(PromptFields, c) \cup x,
          Literals(n, "plain", 3), FALSE, w) :
        a \in 0..Len(CoStarKeywords), b \in {0, 5, Len(SpecificityList)},
        c \in 0..Len(PromptFields), x \in PromptExtras, n \in 0..1,
        w \in WordCounts}

PlainRequests == {EmptyText, Text({"resume", "email"}, <<>>, FALSE, 12)}

ResumeRequests ==
    {Text(Prefix(RoleKeywords, r), <<>>, FALSE, 59) : r \in {0, 2, 7}}

ResumeExtras == {{}, {"Led", "handled", "email", "metadata"}}

ResumeResponses ==
    {EmptyText} \cup
    {Text(Prefix(action_verbs, v) \cup Prefix(impact_words, i)
            \cup Prefix(RoleKeywords, q) \cup QuotedPrefix(required_keys, k)
            \cup x,
          IF pct THEN Literals(n, "percent", 50) ELSE Literals(n, "plain", 3),
          FALSE, 60) :
        v \in {0, 1, 12, Len(action_verbs)}, i \in {0, Len(impact_words)},
        q \in {0, Len(RoleKeywords)}, k \in 0..Len(required_keys),
        x \in ResumeExtras, n \in 0..MaxNumbers, pct \in BOOLEAN}

ActionListPhrases == {{}, {"do these first"}, {"prioritized action list"}}

EmailExtras == {{}, {Quoted("Sales"), Quoted("HR")}}

\* n urgency fields with values in 1..10, the two ends of the range in turn
ValidUrgencies(n) ==
    [i \in 1..n |-> [kind |-> "urgency", value |-> IF i % 2 = 1 THEN 1 ELSE 10]]

\* urgency fields with values outside 1..10
InvalidUrgencies ==
    {<<>>, <<[kind |-> "urgency", value |-> 0]>>,
     <<[kind |-> "urgency", value |-> 0], [kind |-> "urgency", value |-> 11]>>,
     <<LongUrgency>>}

EmailResponses ==
    {EmptyText} \cup
    {Text(QuotedPrefix(triage_field_names, k) \cup QuotedPrefix(known_cats, c)
            \cup l \cup x,
          ValidUrgencies(nv) \o bad, arr, 60) :
        k \in {0, 1, 4, Len(triage_field_names)},
        c \in {0, 6, Len(known_cats)},
        l \in ActionListPhrases, x \in EmailExtras,
        nv \in 0..MaxUrgencies, bad \in InvalidUrgencies, arr \in BOOLEAN}

Scorers == {"prompt", "resume", "email"}

ScoreIdle ==
    /\ sc_pc = "idle"
    /\ sc_fn = "prompt"
    /\ sc_request = EmptyText
    /\ sc_response = EmptyText
    /\ sc_score = <<>>
    /\ sc_metrics = <<>>

ScoreInit ==
    /\ sc_pc = "call"
    /\ sc_fn \in Scorers
    /\ sc_request \in (IF sc_fn = "resume" THEN ResumeRequests ELSE PlainRequests)
    /\ sc_response \in (CASE sc_fn = "prompt" -> PromptResponses
                           [] sc_fn = "resume" -> ResumeResponses
                           [] sc_fn = "email" -> EmailResponses)
    /\ sc_score = <<>>
    /\ sc_metrics = <<>>

\* score = score_prompt_optimization(task, response); score.to_dict()
ScorePrompt ==
    /\ sc_pc = "call"
    /\ sc_fn = "prompt"
    /\ sc_score' = score_prompt_optimization(sc_request, sc_response)
    /\ \E up \in BOOLEAN : sc_metrics' = to_dict(sc_score', up)
    /\ sc_pc' = "done"
    /\ UNCHANGED <<sc_fn, sc_request, sc_response>>

\* score = score_resume_rewrite(task, response); score.to_dict()
ScoreResume ==
    /\ sc_pc = "call"
    /\ sc_fn = "resume"
    /\ sc_score' = score_resume_rewrite(sc_request, sc_response)
    /\ \E up \in BOOLEAN : sc_metrics' = to_dict(sc_score', up)
    /\ sc_pc' = "done"
    /\ UNCHANGED <<sc_fn, sc_request, sc_response>>

\* score = score_email_prioritization(task, response); score.to_dict()
\* the ValueError of int(x) leaves the scorer
ScoreEmail ==
    /\ sc_pc = "call"
    /\ sc_fn = "email"
    /\ \E limited \in BOOLEAN :
         IF int_raises(sc_response, limited)
         THEN /\ sc_pc' = "raised"
              /\ UNCHANGED <<sc_score, sc_metrics>>
         ELSE /\ sc_score' = score_email_prioritization(sc_request, sc_response)
              /\ \E up \in BOOLEAN : sc_metrics' = to_dict(sc_score', up)
              /\ sc_pc' = "done"
    /\ UNCHANGED <<sc_fn, sc_request, sc_response>>

ScoreNext ==
    \/ ScorePrompt
    \/ ScoreResume
    \/ ScoreEmail

\* ------------------------------------------------------------------------
\* The category handlers: execute, and the conversational turn
\* BaseAgent.run it invokes.  execute passes run a keyword argument
\* extra_context that the body of run never reads; the turn is modelled as
\* run(task).
\* ------------------------------------------------------------------------
Calls == 1..NumCalls

\* the user ids handlers are built for: the constructor's default
Users == {"default_user"}

Agents == {PromptOptimizerAgent, ContentRewriterAgent, EmailPrioritizerAgent}

\* self.name, set by each handler's __init__
AgentName(agent) ==
    CASE agent = PromptOptimizerAgent -> "PromptSmith"
      [] agent = ContentRewriterAgent -> "CareerArchitect"
      [] agent = EmailPrioritizerAgent -> "InboxCommander"

TaskType(agent) ==
    CASE agent = PromptOptimizerAgent -> "prompt_optimization"
      [] agent = ContentRewriterAgent -> "content_optimization"
      [] agent = EmailPrioritizerAgent -> "email_prioritization"

\* the scorer each handler applies
ScoreFor(agent, task, reply) ==
    CASE agent = PromptOptimizerAgent -> score_prompt_optimization(task, reply)
      [] agent = ContentRewriterAgent -> score_resume_rewrite(task, reply)
      [] agent = EmailPrioritizerAgent -> score_email_prioritization(task, reply)

\* the task text of each call: texts of different lengths
TaskOf(c) == Text({"resume", "engineer"}, <<>>, FALSE, c)

\* what the generation function may answer to call c: an empty content or a
\* full reply
RepliesTo(c) ==
    {EmptyText,
     Text({"context", "led", "engineer", Quoted("explanation"), Quoted("sender")},
          Literals(1, "urgency", 7), TRUE, c)}

\* elapsed milliseconds measured around the turn
Latencies == {0, 1500}

NoResult == [output |-> None]

\* MemoryManager.add_exchange(role, text)
add_exchange(turns, user, role, text) ==
    [turns EXCEPT ![user] = Append(@, [role |-> role, text |-> text])]

ExecIdle ==
    /\ memory = [u \in Users |-> <<>>]
    /\ ex_pc = [c \in Calls |-> "idle"]
    /\ ex_agent = PromptOptimizerAgent
    /\ ex_user = "default_user"
    /\ ex_task = [c \in Calls |-> EmptyText]
    /\ ex_response = [c \in Calls |-> EmptyText]
    /\ ex_generation = [c \in Calls |-> <<>>]
    /\ ex_result = [c \in Calls |-> NoResult]

\* a handler object of any of the three classes, on which execute is
\* called NumCalls times, possibly concurrently
ExecInit ==
    /\ ex_agent \in Agents
    /\ ex_user \in Users
    /\ memory = [u \in Users |-> <<>>]
    /\ ex_pc = [c \in Calls |-> "idle"]
    /\ ex_task = [c \in Calls |-> EmptyText]
    /\ ex_response = [c \in Calls |-> EmptyText]
    /\ ex_generation = [c \in Calls |-> <<>>]
    /\ ex_result = [c \in Calls |-> NoResult]

\* execute(task): start = time.time(); self.run(task) builds `messages`
\* from the recent context and the task; they only feed the generation call
ExecuteCall(c) ==
    /\ ex_pc[c] = "idle"
    /\ ex_task' = [ex_task EXCEPT ![c] = TaskOf(c)]
    /\ ex_pc' = [ex_pc EXCEPT ![c] = "run"]
    /\ UNCHANGED <<memory, ex_agent, ex_user, ex_response, ex_generation, ex_result>>

\* mutant: a failed generation call is caught and an empty response used
RunInvokeSwallows(c) ==
    /\ ex_pc[c] = "run"
    /\ \/ /\ ex_generation' = [ex_generation EXCEPT ![c] = Append(@, "raised")]
          /\ ex_response' = [ex_response EXCEPT ![c] = EmptyText]
          /\ ex_pc' = [ex_pc EXCEPT ![c] = "invoked"]
       \/ \E reply \in RepliesTo(c) :
             /\ ex_generation' = [ex_generation EXCEPT ![c] = Append(@, "replied")]
             /\ ex_response' = [ex_response EXCEPT ![c] = reply]
             /\ ex_pc' = [ex_pc EXCEPT ![c] = "invoked"]
    /\ UNCHANGED <<memory, ex_agent, ex_user, ex_task, ex_result>>

\* mutant: a failed generation call is made once more
RunInvokeRetries(c) ==
    /\ ex_pc[c] = "run"
    /\ \/ /\ ex_generation' = [ex_generation EXCEPT ![c] = Append(@, "raised")]
          /\ ex_pc' = [ex_pc EXCEPT ![c] =
                         IF ex_generation[c] = <<>> THEN "run" ELSE "raised"]
          /\ UNCHANGED ex_response
       \/ \E reply \in RepliesTo(c) :
             /\ ex_generation' = [ex_generation EXCEPT ![c] = Append(@, "replied")]
             /\ ex_response' = [ex_response EXCEPT ![c] = reply]
             /\ ex_pc' = [ex_pc EXCEPT ![c] = "invoked"]
    /\ UNCHANGED <<memory, ex_agent, ex_user, ex_task, ex_result>>

\* response = self.llm.invoke(messages).content
\* an exception of invoke leaves run and execute, which catch nothing
RunInvoke(c) ==
    /\ ex_pc[c] = "run"
    /\ \/ /\ ex_generation' = [ex_generation EXCEPT ![c] = Append(@, "raised")]
          /\ ex_pc' = [ex_pc EXCEPT ![c] = "raised"]
          /\ UNCHANGED ex_response
       \/ \E reply \in RepliesTo(c) :
             /\ ex_generation' = [ex_generation EXCEPT ![c] = Append(@, "replied")]
             /\ ex_response' = [ex_response EXCEPT ![c] = reply]
             /\ ex_pc' = [ex_pc EXCEPT ![c] = "invoked"]
    /\ UNCHANGED <<memory, ex_agent, ex_user, ex_task, ex_result>>

\* mutant: the human turn is saved before the trace, so a failing trace
\* leaves it behind
RunTraceAfterHuman(c) ==
    /\ ex_pc[c] = "invoked"
    /\ \E traced \in BOOLEAN :
         /\ ex_pc' = [ex_pc EXCEPT ![c] = IF traced THEN "traced" ELSE "raised"]
         /\ memory' = IF traced THEN memory
                      ELSE add_exchange(memory, ex_user, "human", ex_task[c])
    /\ UNCHANGED <<ex_agent, ex_user, ex_task, ex_response, ex_generation,
                   ex_result>>

\* trace_agent_call(self.name, user_input, response): log.info may raise
RunTrace(c) ==
    /\ ex_pc[c] = "invoked"
    /\ \E traced \in BOOLEAN :
         ex_pc' = [ex_pc EXCEPT ![c] = IF traced THEN "traced" ELSE "raised"]
    /\ UNCHANGED <<memory, ex_agent, ex_user, ex_task, ex_response,
                   ex_generation, ex_result>>

\* mutant: the human turn overwrites the turn written last (a lost update)
RunAddHumanOverwrites(c) ==
    /\ ex_pc[c] = "traced"
    /\ memory' = [memory EXCEPT ![ex_user] =
                     (IF @ = <<>> THEN <<>> ELSE SubSeq(@, 1, Len(@) - 1))
                     \o <<[role |-> "human", text |-> ex_task[c]]>>]
    /\ ex_pc' = [ex_pc EXCEPT ![c] = "human_added"]
    /\ UNCHANGED <<ex_agent, ex_user, ex_task, ex_response,
                   ex_generation, ex_result>>

\* self.memory.add_exchange("human", user_input)
RunAddHuman(c) ==
    /\ ex_pc[c] = "traced"
    /\ memory' = add_exchange(memory, ex_user, "human", ex_task[c])
    /\ ex_pc' = [ex_pc EXCEPT ![c] = "human_added"]
    /\ UNCHANGED <<ex_agent, ex_user, ex_task, ex_response,
                   ex_generation, ex_result>>

\* mutant: the assistant turn is put in front of the log
RunAddAssistantInFront(c) ==
    /\ ex_pc[c] = "human_added"
    /\ memory' = [memory EXCEPT ![ex_user] =
                     <<[role |-> "assistant", text |-> ex_response[c]]>> \o @]
    /\ ex_pc' = [ex_pc EXCEPT ![c] = "ran"]
    /\ UNCHANGED <<ex_agent, ex_user, ex_task, ex_response,
                   ex_generation, ex_result>>

\* self.memory.add_exchange("assistant", response); return response
RunAddAssistant(c) ==
    /\ ex_pc[c] = "human_added"
    /\ memory' = add_exchange(memory, ex_user, "assistant", ex_response[c])
    /\ ex_pc' = [ex_pc EXCEPT ![c] = "ran"]
    /\ UNCHANGED <<ex_agent, ex_user, ex_task, ex_response,
                   ex_generation, ex_result>>

\* the rest of execute: token counts, score, latency, the result record
HandlerResult(agent, task, reply, latency_ms, up) ==
    [output |-> reply,
     metadata |->
        [agent |-> AgentName(agent),
         task_type |-> TaskType(agent),
         metrics |->
            [input_tokens |-> simple_token_count(chars_of(task)),
             output_tokens |-> simple_token_count(chars_of(reply)),
             latency_ms |-> latency_ms]
            @@ to_dict(ScoreFor(agent, task, reply), up)]]

ExecuteReturn(c) ==
    /\ ex_pc[c] = "ran"
    /\ \E latency_ms \in Latencies, up \in BOOLEAN :
         ex_result' = [ex_result EXCEPT ![c] =
             HandlerResult(ex_agent, ex_task[c], ex_response[c], latency_ms, up)]
    /\ ex_pc' = [ex_pc EXCEPT ![c] = "returned"]
    /\ UNCHANGED <<memory, ex_agent, ex_user, ex_task, ex_response,
                   ex_generation>>

ExecNext ==
    \E c \in Calls :
        \/ ExecuteCall(c)
        \/ RunInvoke(c)
        \/ RunTrace(c)
        \/ RunAddHuman(c)
        \/ RunAddAssistant(c)
        \/ ExecuteReturn(c)

\* ------------------------------------------------------------------------
\* extract_keywords: two calls on the module-level Rake instance.  A text
\* is a sequence of words; RAKE takes the maximal runs of words that are
\* not stopwords as candidate phrases and ranks them by the sum of their
\* words' degree/frequency ratios, highest first.  In the texts used every
\* word occurs once, so a phrase of n words scores n * n, and no two
\* phrases of a text score the same.
\* ------------------------------------------------------------------------
Stopwords == {"and", "the"}

KeywordTexts ==
    {<<>>,
     <<"resume", "tips">>,
     <<"deep", "learning", "models", "and", "resume">>,
     <<"the", "inbox", "and", "urgent", "email", "triage", "plan">>}

\* 10 is the default of top_k
TopKs == {1, 10}

\* the candidate phrases of a text, as <<first, last>> word positions
candidate_phrases(text) ==
    {<<i, j>> \in (DOMAIN text) \X (DOMAIN text) :
        /\ i <= j
        /\ \A k \in i..j : text[k] \notin Stopwords
        /\ (i = 1 \/ text[i - 1] \in Stopwords)
        /\ (j = Len(text) \/ text[j + 1] \in Stopwords)}

phrase_score(span) == (span[2] - span[1] + 1) * (span[2] - span[1] + 1)

RECURSIVE ranked(_, _)
ranked(text, spans) ==
    IF spans = {} THEN <<>>
    ELSE LET best == CHOOSE p \in spans :
                        \A q \in spans : phrase_score(q) <= phrase_score(p)
         IN  <<SubSeq(text, best[1], best[2])>> \o ranked(text, spans \ {best})

\* rake.extract_keywords_from_text(text): the instance now holds the ranked
\* phrases of this text
extract_keywords_from_text(text) ==
    [ranked_phrases |-> ranked(text, candidate_phrases(text))]

\* rake.get_ranked_phrases()
get_ranked_phrases(r) == r.ranked_phrases

\* list[:top_k]
Take(list, top_k) == SubSeq(list, 1, Min(top_k, Len(list)))

KeywordIdle ==
    /\ rake = [ranked_phrases |-> <<>>]
    /\ kw_pc = [c \in Calls |-> "idle"]
    /\ kw_text = [c \in Calls |-> <<>>]
    /\ kw_top_k = [c \in Calls |-> 10]
    /\ kw_result = [c \in Calls |-> None]

\* rake = Rake() at import
KeywordInit == KeywordIdle

\* extract_keywords(text, top_k): rake.extract_keywords_from_text(text)
KeywordExtract(c) ==
    /\ kw_pc[c] = "idle"
    /\ \E text \in KeywordTexts, top_k \in TopKs :
         /\ kw_text' = [kw_text EXCEPT ![c] = text]
         /\ kw_top_k' = [kw_top_k EXCEPT ![c] = top_k]
         /\ rake' = extract_keywords_from_text(text)
    /\ kw_pc' = [kw_pc EXCEPT ![c] = "extracted"]
    /\ UNCHANGED kw_result

\* return rake.get_ranked_phrases()[:top_k]
KeywordReturn(c) ==
    /\ kw_pc[c] = "extracted"
    /\ kw_result' = [kw_result EXCEPT ![c] =
                        Take(get_ranked_phrases(rake), kw_top_k[c])]
    /\ kw_pc' = [kw_pc EXCEPT ![c] = "returned"]
    /\ UNCHANGED <<rake, kw_text, kw_top_k>>

KeywordNext ==
    \E c \in Calls :
        \/ KeywordExtract(c)
        \/ KeywordReturn(c)

\* ------------------------------------------------------------------------
\* The agent graph (src/core/graph.py)
\* ------------------------------------------------------------------------
\* the words a message is written with
GraphWords == {"Resume", "CV", "jobs", "Email", "INBOX", "prompt"}

\* a message content: up to MaxWords words separated by spaces
Messages == UNION {[1..n -> GraphWords] : n \in 0..MaxWords}

\* str.lower() of a word
lower_word(w) ==
    CASE w = "Resume" -> "resume"
      [] w = "CV" -> "cv"
      [] w = "Email" -> "email"
      [] w = "INBOX" -> "inbox"
      [] OTHER -> w

\* last_message.lower()
lower_message(message) == [i \in DOMAIN message |-> lower_word(message[i])]

\* `keyword in word` for the words above (compared as written, case and all)
word_contains(w, keyword) == w = keyword \/ (w = "jobs" /\ keyword = "job")

\* `keyword in text`: the keywords have no space, so a match lies in a word
in_message(keyword, message) ==
    \E i \in DOMAIN message : word_contains(message[i], keyword)

AgentNodes ==
    {"PromptOptimizerAgent", "ContentRewriterAgent", "EmailPrioritizerAgent"}

\* supervisor_node(state), with last_message = state["messages"][-1].content
supervisor_node(last_message) ==
    IF \/ in_message("resume", lower_message(last_message))
       \/ in_message("cv", lower_message(last_message))
       \/ in_message("job", lower_message(last_message))
    THEN "ContentRewriterAgent"
    ELSE IF \/ in_message("email", lower_message(last_message))
            \/ in_message("inbox", lower_message(last_message))
    THEN "EmailPrioritizerAgent"
    ELSE "PromptOptimizerAgent"

GraphIdle ==
    /\ gr_pc = "import"
    /\ gr_executed = <<>>
    /\ sv_pc = "idle"
    /\ sv_message = <<>>
    /\ sv_result = None

\* the module is about to be imported; supervisor_node is given a state
GraphInit ==
    /\ gr_pc = "import"
    /\ gr_executed = <<>>
    /\ sv_pc = "call"
    /\ sv_message \in Messages
    /\ sv_result = None

\* The module body.  The class body of AgentState evaluates
\* operator.additem, which the operator module does not have: the
\* AttributeError leaves the import, so StateGraph(AgentState), the
\* add_node calls and graph.compile() below it are never executed, there is
\* no app to invoke and no agent node runs.
GraphImport ==
    /\ gr_pc = "import"
    /\ gr_pc' = "import_raised"
    /\ UNCHANGED <<gr_executed, sv_pc, sv_message, sv_result>>

\* supervisor_node applied to a state whose last message is sv_message
SupervisorNode ==
    /\ sv_pc = "call"
    /\ sv_result' = supervisor_node(sv_message)
    /\ sv_pc' = "returned"
    /\ UNCHANGED <<gr_pc, gr_executed, sv_message>>

GraphNext == GraphImport \/ SupervisorNode

\* ------------------------------------------------------------------------
\* extract_sections (src/tools/resume_parser.py)
\* A string is the list of its characters.
\* ------------------------------------------------------------------------
\* the lines a resume text is written with:
\*   "Experience"
\*   "SKILLS"
\*   " Education"
\*   ""
\*   " Built APIs "
\*   "Built APIs."
\*   "Go, SQL"
ResumeLines ==
    {<<"E", "x", "p", "e", "r", "i", "e", "n", "c", "e">>,
     <<"S", "K", "I", "L", "L", "S">>,
     <<" ", "E", "d", "u", "c", "a", "t", "i", "o", "n">>,
     <<>>,
     <<" ", "B", "u", "i", "l", "t", " ", "A", "P", "I", "s", " ">>,
     <<"B", "u", "i", "l", "t", " ", "A", "P", "I", "s", ".">>,
     <<"G", "o", ",", " ", "S", "Q", "L">>}

\* resume_text.split('\n') of the resume texts of up to MaxLines lines
ResumeTexts == SeqsUpTo(ResumeLines, MaxLines) \ {<<>>}

\* the capital letters of the lines above and their lower-case letters
UpperCase == <<"A", "B", "C", "D", "E", "G", "I", "K", "L", "P", "Q", "S">>
LowerCase == <<"a", "b", "c", "d", "e", "g", "i", "k", "l", "p", "q", "s">>

lower_char(ch) ==
    IF \E k \in DOMAIN UpperCase : UpperCase[k] = ch
    THEN LowerCase[CHOOSE k \in DOMAIN UpperCase : UpperCase[k] = ch]
    ELSE ch

\* line.lower()
lower_line(line) == [k \in DOMAIN line |-> lower_char(line[k])]

\* line.strip()
strip_line(line) == rstrip(lstrip(line))

\* line.startswith(prefixes), prefixes a tuple of strings
startswith(line, prefixes) ==
    \E p \in prefixes :
        Len(p) <= Len(line) /\ SubSeq(line, 1, Len(p)) = p

SummaryHeaders ==
    {<<"s", "u", "m", "m", "a", "r", "y">>,
     <<"p", "r", "o", "f", "i", "l", "e">>,
     <<"o", "b", "j", "e", "c", "t", "i", "v", "e">>}

ExperienceHeaders ==
    {<<"e", "x", "p", "e", "r", "i", "e", "n", "c", "e">>,
     <<"w", "o", "r", "k", " ", "h", "i", "s", "t", "o", "r", "y">>,
     <<"e", "m", "p", "l", "o", "y", "m", "e", "n", "t">>}

SkillsHeaders ==
    {<<"s", "k", "i", "l", "l", "s">>,
     <<"t", "e", "c", "h", "n", "i", "c", "a", "l", " ", "s", "k", "i", "l", "l", "s">>}

EducationHeaders ==
    {<<"e", "d", "u", "c", "a", "t", "i", "o", "n">>,
     <<"a", "c", "a", "d", "e", "m", "i", "c">>}

\* the section a line opens, by the if/elif chain on line.lower(); None
\* when the line is no header
header_of(line) ==
    IF startswith(lower_line(line), SummaryHeaders) THEN "summary"
    ELSE IF startswith(lower_line(line), ExperienceHeaders) THEN "experience"
    ELSE IF startswith(lower_line(line), SkillsHeaders) THEN "skills"
    ELSE IF startswith(lower_line(line), EducationHeaders) THEN "education"
    ELSE None

\* line.split(',')
RECURSIVE split(_)
split(line) ==
    IF \A k \in DOMAIN line : line[k] # ","
    THEN <<line>>
    ELSE LET k == CHOOSE k \in DOMAIN line :
                      line[k] = "," /\ \A j \in 1..(k - 1) : line[j] # ","
         IN  <<SubSeq(line, 1, k - 1)>>
                 \o split(SubSeq(line, k + 1, Len(line)))

\* [s.strip() for s in line.split(',')]
stripped_pieces(line) ==
    [k \in DOMAIN split(line) |-> strip_line(split(line)[k])]

\* the value of `value += text` for a section value and a string: a str is
\* concatenated; a list is extended with the characters of the string, each
\* a one-character string
add_str(section, value, text) ==
    IF section \in {"experience", "skills"}
    THEN value \o [k \in DOMAIN text |-> <<text[k]>>]
    ELSE value \o text

EmptySections ==
    [summary |-> <<>>, experience |-> <<>>, skills |-> <<>>,
     education |-> <<>>]

ResumeIdle ==
    /\ rs_pc = "idle"
    /\ rs_text = <<>>
    /\ rs_index = 1
    /\ rs_current = None
    /\ rs_sections = EmptySections

\* extract_sections(resume_text) up to the for loop
ResumeInit ==
    /\ rs_pc = "loop"
    /\ rs_text \in ResumeTexts
    /\ rs_index = 1
    /\ rs_current = None
    /\ rs_sections = EmptySections

\* one iteration of `for line in lines`
ParseLine ==
    /\ rs_pc = "loop"
    /\ rs_index <= Len(rs_text)
    /\ LET line == strip_line(rs_text[rs_index])
       IN  IF header_of(line) # None
           THEN /\ rs_current' = header_of(line)
                /\ UNCHANGED rs_sections
           ELSE /\ UNCHANGED rs_current
                /\ IF rs_current = "experience" /\ line # <<>>
                          /\ Len(line) > 10
                   THEN rs_sections' =
                            [rs_sections EXCEPT !.experience = Append(@, line)]
                   ELSE IF rs_current = "skills" /\ line # <<>>
                   THEN rs_sections' =
                            [rs_sections EXCEPT
                                !.skills = @ \o stripped_pieces(line)]
                   ELSE IF rs_current # None
                   THEN rs_sections' =
                            [rs_sections EXCEPT
                                ![rs_current] =
                                    add_str(rs_current, @, line \o <<" ">>)]
                   ELSE UNCHANGED rs_sections
    /\ rs_index' = rs_index + 1
    /\ UNCHANGED <<rs_pc, rs_text>>

\* return sections
ExtractReturn ==
    /\ rs_pc = "loop"
    /\ rs_index > Len(rs_text)
    /\ rs_pc' = "returned"
    /\ UNCHANGED <<rs_text, rs_index, rs_current, rs_sections>>

ResumeNext == ParseLine \/ ExtractReturn

\* a router that is constructed and not in use
RouterAtRest ==
    /\ routes = RouteCatalog
    /\ route_embeddings = EncodePhrases(keys(RouteCatalog))
    /\ llm = "chat"
    /\ RouterIdle

\* ------------------------------------------------------------------------
\* Specifications
\* ------------------------------------------------------------------------
Init == RouterInit /\ TokenIdle /\ ScoreIdle /\ ExecIdle /\ KeywordIdle /\ GraphIdle
        /\ ResumeIdle

Next == RouteNext /\ UNCHANGED <<tokenVars, scoreVars, execVars, keywordVars, graphVars,
                   resumeVars>>

Spec == Init /\ [][Next]_vars

TokenSpecInit ==
    TokenInit /\ RouterAtRest /\ ScoreIdle /\ ExecIdle /\ KeywordIdle /\ GraphIdle
        /\ ResumeIdle

TokenNext ==
    SimpleTokenCount /\ UNCHANGED <<routerVars, scoreVars, execVars, keywordVars, graphVars,
                   resumeVars>>

SpecTokens == TokenSpecInit /\ [][TokenNext]_vars

ScoreSpecInit ==
    ScoreInit /\ RouterAtRest /\ TokenIdle /\ ExecIdle /\ KeywordIdle /\ GraphIdle
        /\ ResumeIdle

ScoreSpecNext ==
    ScoreNext /\ UNCHANGED <<routerVars, tokenVars, execVars, keywordVars, graphVars,
                   resumeVars>>

SpecScore == ScoreSpecInit /\ [][ScoreSpecNext]_vars

ExecSpecInit ==
    ExecInit /\ RouterAtRest /\ TokenIdle /\ ScoreIdle /\ KeywordIdle /\ GraphIdle
        /\ ResumeIdle

ExecSpecNext ==
    ExecNext /\ UNCHANGED <<routerVars, tokenVars, scoreVars, keywordVars, graphVars,
                   resumeVars>>

SpecExec == ExecSpecInit /\ [][ExecSpecNext]_vars

\* The same handler object called by one sequential client: execute is
\* called for call c when every earlier call has returned or raised.
Ended(c) == ex_pc[c] \in {"returned", "raised"}

OneAtATime(c) ==
    /\ \A d \in Calls : d < c => Ended(d)
    /\ \A d \in Calls : d > c => ex_pc[d] = "idle"

TurnsNext ==
    \E c \in Calls :
        \/ OneAtATime(c) /\ ExecuteCall(c)
        \/ RunInvoke(c)
        \/ RunTrace(c)
        \/ RunAddHuman(c)
        \/ RunAddAssistant(c)
        \/ ExecuteReturn(c)

TurnsSpecNext ==
    TurnsNext /\ UNCHANGED <<routerVars, tokenVars, scoreVars, keywordVars, graphVars,
                   resumeVars>>

SpecTurns == ExecSpecInit /\ [][TurnsSpecNext]_vars

KeywordSpecInit ==
    KeywordInit /\ RouterAtRest /\ TokenIdle /\ ScoreIdle /\ ExecIdle /\ GraphIdle
        /\ ResumeIdle

KeywordSpecNext ==
    KeywordNext /\ UNCHANGED <<routerVars, tokenVars, scoreVars, execVars, graphVars,
                   resumeVars>>

SpecKeywords == KeywordSpecInit /\ [][KeywordSpecNext]_vars

GraphSpecInit ==
    GraphInit /\ RouterAtRest /\ TokenIdle /\ ScoreIdle /\ ExecIdle
        /\ KeywordIdle /\ ResumeIdle

GraphSpecNext ==
    GraphNext
        /\ UNCHANGED <<routerVars, tokenVars, scoreVars, execVars, keywordVars,
                       resumeVars>>

SpecGraph == GraphSpecInit /\ [][GraphSpecNext]_vars

ResumeSpecInit ==
    ResumeInit /\ RouterAtRest /\ TokenIdle /\ ScoreIdle /\ ExecIdle
        /\ KeywordIdle /\ GraphIdle

ResumeSpecNext ==
    ResumeNext
        /\ UNCHANGED <<routerVars, tokenVars, scoreVars, execVars, keywordVars,
                       graphVars>>

SpecResume == ResumeSpecInit /\ [][ResumeSpecNext]_vars

\* ------------------------------------------------------------------------
\* Properties of IntentRouter.route
\* ------------------------------------------------------------------------
Returned == rpc = "returned"

\* the semantic path was taken: the maximum similarity of the input to the
\* catalog phrases is above 0.45
AboveThreshold ==
    \E p \in Phrases : user_input.sim[p] > Threshold

\* the last reply of the generation function in this call
LastOutcome == invocations[Len(invocations)]

\* a text that is exactly the label L, optionally surrounded by whitespace
IsLabelText(text, L) ==
    \E k \in DOMAIN text :
        /\ text[k] = L
        /\ \A m \in DOMAIN text : m # k => text[m] \in Whitespace

\* C1: every route call that returns yields one of the category labels of
\* the route catalog, whatever the fallback model replies.
C1_ReturnsCatalogLabel ==
    Returned => result \in Labels(routes)

\* C2: when no phrase clears the threshold and the fallback reply, trimmed,
\* is not one of the category labels, route returns PromptOptimizerAgent.
C2_MalformedReplyGivesDefault ==
    ( /\ Returned
      /\ ~AboveThreshold
      /\ ~LastOutcome.raised
      /\ \A L \in Labels(routes) : ~IsLabelText(LastOutcome.text, L) )
    => result = PromptOptimizerAgent

\* C3: when the maximum similarity is above 0.45, route returns the label of
\* a catalog phrase whose similarity to the input is the highest.
C3_SemanticReturnsArgmaxLabel ==
    (Returned /\ AboveThreshold) =>
        \E k \in DOMAIN routes :
            /\ \A p \in Phrases : user_input.sim[p] <= user_input.sim[routes[k].phrase]
            /\ result = routes[k].label

C3_Witness ==
    /\ Returned
    /\ AboveThreshold
    /\ result = EmailPrioritizerAgent
    /\ user_input.sim["inbox"] = Threshold + 1
    /\ user_input.sim["optimize prompt"] = BaseSim

\* C4 as stated: whenever a generation call fails during the fallback path,
\* route returns PromptOptimizerAgent.
C4_AnyFailureGivesDefault ==
    (Returned /\ \E i \in DOMAIN invocations : invocations[i].raised)
        => result = PromptOptimizerAgent

\* C4 amended: when the generation call fails and the retry that follows it
\* fails too, route returns PromptOptimizerAgent; route raises only when the
\* encoder failed, before any generation call, and it never returns null.
C4_FailedRetryGivesDefault ==
    /\ (Returned /\ invocations # <<>> /\ LastOutcome.raised)
           => (Len(invocations) = 2 /\ result = PromptOptimizerAgent)
    /\ rpc = "raised" => (invocations = <<>> /\ scores = <<>>)
    /\ Returned => result # None

C4_Witness ==
    /\ Returned
    /\ Len(invocations) = 2
    /\ invocations[1].raised
    /\ invocations[2].raised
    /\ result = PromptOptimizerAgent

C10_SemanticPathNeverInvokes ==
    (rpc \in {"scored", "returned"} /\ AboveThreshold) => invocations = <<>>

C10_Witness ==
    /\ Returned
    /\ AboveThreshold
    /\ result = ContentRewriterAgent
    /\ invocations = <<>>

\* ------------------------------------------------------------------------
\* Properties of simple_token_count
\* ------------------------------------------------------------------------
\* alphanumeric characters (str.isalnum): letters and digits of any script
Alphanumeric == AsciiAlnum \cup NonAsciiLetters

\* the positions where a maximal run of alphanumeric characters starts
AlnumRunStarts(chars) ==
    {i \in DOMAIN chars :
        /\ chars[i] \in Alphanumeric
        /\ (i = 1 \/ chars[i - 1] \notin Alphanumeric)}

\* the positions of characters neither whitespace nor alphanumeric
OtherChars(chars) ==
    {i \in DOMAIN chars : chars[i] \notin SpaceChars \cup Alphanumeric}

\* C8: simple_token_count(text) is the number of maximal runs of
\* alphanumeric characters plus the number of characters that are neither
\* whitespace nor alphanumeric; empty or null input yields 0.
C8_CountsRunsAndOtherChars ==
    tok_pc = "done" =>
        /\ tok_count = Cardinality(AlnumRunStarts(tok_text.chars))
                       + Cardinality(OtherChars(tok_text.chars))
        /\ (tok_text.isNone \/ tok_text.chars = <<>>) => tok_count = 0

\* ------------------------------------------------------------------------
\* Properties of the quality scorers
\* ------------------------------------------------------------------------
\* the names of the sub-scores of a QualityScore
SubScoreNames(score) == DOMAIN score \ {"overall"}

RECURSIVE SumOver(_, _)
SumOver(f, S) ==
    IF S = {} THEN 0
    ELSE LET k == CHOOSE x \in S : TRUE
         IN  f[k] + SumOver(f, S \ {k})

\* C6: every sub-score returned by each of the three scorers lies in [0, 1],
\* in the QualityScore and in its to_dict() form.
C6_SubScoresInUnitInterval ==
    sc_pc = "done" =>
        /\ Cardinality(SubScoreNames(sc_score)) = 4
        /\ \A k \in SubScoreNames(sc_score) :
              /\ 0 <= sc_score[k] /\ sc_score[k] <= 10000
              /\ 0 <= sc_metrics[k] /\ sc_metrics[k] <= 10000

\* all hits present: the uncapped sub-score reaches exactly 1.0
C6_Witness ==
    /\ sc_pc = "done"
    /\ sc_fn = "prompt"
    /\ sc_score.structure = 10000
    /\ sc_score.completeness = 10000
    /\ sc_score.specificity = 10000

\* C7 as stated: the overall value of to_dict() equals the mean of the four
\* sub-score values of to_dict().
C7_ReturnedOverallIsMean ==
    sc_pc = "done" =>
        4 * sc_metrics.overall = SumOver(sc_metrics, SubScoreNames(sc_metrics))

\* C7 amended: the QualityScore's overall is exactly the mean of its four
\* sub-scores, and the overall of to_dict(), rounded to three decimals,
\* differs from the mean of the four sub-score values of to_dict() by at
\* most 0.0005.
C7_OverallIsMeanUpToRounding ==
    sc_pc = "done" =>
        /\ 4 * sc_score.overall = SumOver(sc_score, SubScoreNames(sc_score))
        /\ LET d == 4 * sc_metrics.overall
                    - SumOver(sc_metrics, SubScoreNames(sc_metrics))
           IN  -20 <= d /\ d <= 20

\* a mean that falls halfway between two thousandths
C7_Witness ==
    /\ sc_pc = "done"
    /\ sc_fn = "resume"
    /\ sc_score.overall % 10 = 5
    /\ sc_metrics.overall = sc_score.overall + 5

\* ------------------------------------------------------------------------
\* Properties of the category handlers
\* ------------------------------------------------------------------------
GenerationFailed(c) ==
    \E i \in DOMAIN ex_generation[c] : ex_generation[c][i] = "raised"

\* C5: when the generation call fails inside a handler's execute, the call
\* raises; it returns no Handler Result, and every Handler Result returned
\* carries as output the reply the generation function gave.
C5_GenerationFailureSurfaces ==
    \A c \in Calls :
        /\ GenerationFailed(c) => (ex_pc[c] = "raised" /\ ex_result[c] = NoResult)
        /\ ex_pc[c] = "returned" =>
              /\ ex_generation[c] = <<"replied">>
              /\ ex_result[c].output \in RepliesTo(c)
              /\ ex_result[c].output = ex_response[c]

C5_Witness ==
    \E c \in Calls :
        /\ GenerationFailed(c)
        /\ ex_agent = EmailPrioritizerAgent
        /\ ex_pc[c] = "raised"
        /\ \E d \in Calls : ex_pc[d] = "returned" /\ ex_result[d].output # EmptyText

\* the log emission of this call failed in both attempts
LogFailed == log_attempts = 2 /\ log = <<>>

\* the label the call resolves, computed without regard to logging
ResolvedLabel ==
    IF AboveThreshold THEN SemanticTarget(routes, scores) ELSE response

\* C11: a failure of the log emission in route, also of the second,
\* plain-string attempt, never aborts routing: once the input is encoded the
\* call does not raise, and it returns the label it resolved, the same as
\* when logging succeeds.
C11_LogFailureNeverAborts ==
    /\ rpc = "raised" => (scores = <<>> /\ log_attempts = 0)
    /\ Returned => (result = ResolvedLabel /\ log_attempts \in {1, 2})

C11_Witness ==
    /\ Returned
    /\ LogFailed
    /\ AboveThreshold
    /\ result = EmailPrioritizerAgent

\* C12: when the encoder fails on the input text, route raises: it returns
\* no label, makes no call of the generation function and emits no log
\* record.
C12_EncoderFailurePropagates ==
    rpc = "raised" =>
        /\ result = None
        /\ response = None
        /\ invocations = <<>>
        /\ log = <<>>
        /\ log_attempts = 0

C12_Witness ==
    /\ rpc = "raised"
    /\ user_input \in UserInputs
    /\ scores = <<>>

\* the sub-scores of a response with no marker, keyword or field
Baseline ==
    [prompt |-> [completeness |-> 1000, clarity |-> 6000,
                 structure |-> 4000, specificity |-> 4000],
     resume |-> [achievements_signal |-> 4000, metric_density |-> 3000,
                 tailoring_alignment |-> 4000, json_compliance |-> 2000],
     email |-> [triage_accuracy_signal |-> 4000, urgency_consistency |-> 5000,
                category_precision |-> 4000, json_validity |-> 4000]]

\* C13: none of the three scorers raises, whatever the response text; for
\* a response with no marker, keyword or field each sub-score is its
\* baseline value.
C13_ScorersNeverRaise ==
    /\ sc_pc # "raised"
    /\ (sc_pc = "done" /\ sc_response = EmptyText) =>
           \A k \in DOMAIN Baseline[sc_fn] : sc_score[k] = Baseline[sc_fn][k]

\* C14: a handler performs no retries: each execute call invokes the
\* generation function at most once, and exactly once when it has got past
\* the generation step, whether the invocation succeeded or failed.
C14_AtMostOneGenerationCall ==
    \A c \in Calls :
        /\ Len(ex_generation[c]) <= 1
        /\ ex_pc[c] \in {"idle", "run"} => ex_generation[c] = <<>>
        /\ ex_pc[c] \notin {"idle", "run"} => Len(ex_generation[c]) = 1

C14_Witness ==
    /\ ex_agent = ContentRewriterAgent
    /\ \E c, d \in Calls :
          /\ ex_pc[c] = "raised" /\ ex_generation[c] = <<"raised">>
          /\ ex_pc[d] = "returned" /\ ex_generation[d] = <<"replied">>

\* the catalog positions whose phrase has the highest similarity to the input
MaxPositions ==
    {k \in DOMAIN routes :
        \A p \in Phrases : user_input.sim[p] <= user_input.sim[routes[k].phrase]}

\* C15: when several catalog phrases share the maximum similarity and it is
\* above the threshold, route returns the label of the one that comes
\* first in the catalog's insertion order.
C15_TieGoesToLowestIndex ==
    (Returned /\ AboveThreshold /\ Cardinality(MaxPositions) >= 2) =>
        \E k \in MaxPositions :
            /\ \A m \in MaxPositions : k <= m
            /\ result = routes[k].label

\* "resume" (5th) and "email" (10th) tie: the label of "resume" is returned
C15_Witness ==
    /\ Returned
    /\ user_input.sim["resume"] = HighSim
    /\ user_input.sim["email"] = HighSim
    /\ MaxPositions = {5, 10}
    /\ result = ContentRewriterAgent

\* ------------------------------------------------------------------------
\* Properties of the conversation log
\* ------------------------------------------------------------------------
HumanTurn(c) == [role |-> "human", text |-> ex_task[c]]

AssistantTurn(c) == [role |-> "assistant", text |-> ex_response[c]]

\* the turns call c has appended so far, by its position in run
TurnsOf(c) ==
    CASE ex_pc[c] \in {"idle", "run", "invoked", "traced", "raised"} -> <<>>
      [] ex_pc[c] = "human_added" -> <<HumanTurn(c)>>
      [] ex_pc[c] \in {"ran", "returned"} -> <<HumanTurn(c), AssistantTurn(c)>>

RECURSIVE TurnsUpTo(_)
TurnsUpTo(c) == IF c = 0 THEN <<>> ELSE TurnsUpTo(c - 1) \o TurnsOf(c)

\* C16: a turn appends nothing until the generation function has replied;
\* then it appends the human turn holding the request and after it the
\* assistant turn holding the response, and nothing else.  With turns run
\* one at a time the log is the concatenation, in the order of the turns,
\* of the pairs of the turns that succeeded.
C16_LogIsConcatenationOfPairs ==
    /\ memory[ex_user] = TurnsUpTo(NumCalls)
    /\ \A c \in Calls :
          ex_pc[c] \in {"human_added", "ran", "returned"}
              => ex_generation[c] = <<"replied">>

C16_Witness ==
    /\ \A c \in Calls : ex_pc[c] = "returned"
    /\ Len(memory[ex_user]) = 2 * NumCalls
    /\ memory[ex_user][1] = [role |-> "human", text |-> TaskOf(1)]
    /\ memory[ex_user][2].role = "assistant"
    /\ memory[ex_user][2].text # EmptyText
    /\ memory[ex_user][3] = [role |-> "human", text |-> TaskOf(2)]

\* the positions of the log that hold a given turn
PositionsOf(turn) ==
    {i \in DOMAIN memory[ex_user] : memory[ex_user][i] = turn}

\* the calls that have appended their assistant turn
Answered == {c \in Calls : ex_pc[c] \in {"ran", "returned"}}

RECURSIVE TurnCount(_)
TurnCount(c) == IF c = 0 THEN 0 ELSE TurnCount(c - 1) + Len(TurnsOf(c))

OwnKeywords(c) ==
    Take(ranked(kw_text[c], candidate_phrases(kw_text[c])), kw_top_k[c])

\* C18: when extract_keywords calls on different texts are interleaved,
\* each call returns the phrases extracted from its own text argument.
C18_EachCallReturnsOwnPhrases ==
    \A c \in Calls : kw_pc[c] = "returned" => kw_result[c] = OwnKeywords(c)

\* ------------------------------------------------------------------------
\* Further properties of IntentRouter.route
\* ------------------------------------------------------------------------
\* C19: the catalog (phrases, labels, order) and the stored embeddings are
\* those made at initialization at every point of every route call, on
\* either path and whether the call returns or raises; between calls no
\* state of the previous call is left.
C19_CatalogImmutable ==
    /\ routes = RouteCatalog
    /\ route_embeddings = EncodePhrases(keys(RouteCatalog))
    /\ rpc = "idle" => RouterIdle

\* a fallback call whose two generation attempts failed has returned
C19_Witness ==
    /\ Returned
    /\ ~AboveThreshold
    /\ Len(invocations) = 2
    /\ result = DefaultResponse
    /\ routes = RouteCatalog

\* C20: a route call that returns has tried to emit one log record before
\* returning (one or two attempts, at most one record); the record's
\* method is "semantic" exactly on the threshold path and "llm_fallback"
\* exactly on the fallback path, its target is the value returned, and it
\* carries a confidence only on the threshold path.
C20_OneLogRecordPerReturn ==
    Returned =>
        /\ log_attempts \in {1, 2}
        /\ Len(log) <= 1
        /\ (log_attempts = 1 => Len(log) = 1)
        /\ \A i \in DOMAIN log :
              /\ log[i].method = (IF AboveThreshold THEN "semantic"
                                                    ELSE "llm_fallback")
              /\ log[i].target = result
              /\ ("confidence" \in DOMAIN log[i]) <=> AboveThreshold
              /\ AboveThreshold => log[i].confidence = max(scores)

C20_Witness ==
    /\ Returned
    /\ ~AboveThreshold
    /\ Len(log) = 1
    /\ log[1].form = "plain"
    /\ log[1].method = "llm_fallback"
    /\ log[1].target = EmailPrioritizerAgent

\* the highest similarity of the input to a catalog phrase
MaxSimilarity ==
    CHOOSE v \in {user_input.sim[p] : p \in Phrases} :
        \A p \in Phrases : user_input.sim[p] <= v

\* C21: the comparison with 0.45 is strict: a call returns by the semantic
\* path, without a generation call, exactly when the maximum similarity is
\* greater than 0.45; at exactly 0.45 or below it takes the fallback path
\* and invokes the generation function.
C21_ThresholdIsStrict ==
    Returned =>
        /\ MaxSimilarity > Threshold =>
              (invocations = <<>> /\ result = SemanticTarget(routes, scores))
        /\ MaxSimilarity <= Threshold =>
              (Len(invocations) >= 1 /\ result = response)

C21_Witness ==
    /\ Returned
    /\ MaxSimilarity = Threshold
    /\ Len(invocations) = 1
    /\ result = ContentRewriterAgent

\* C22: one route call invokes the generation function at most twice and
\* only on the fallback path; the second invocation is made only when the
\* first attempt raised, in the call or in reading .content of its result.
C22_AtMostTwoInvocations ==
    rpc # "idle" =>
        /\ Len(invocations) <= 2
        /\ AboveThreshold => invocations = <<>>
        /\ Len(invocations) = 2 => (invocations[1].raised \/ llm = "text")
        /\ rpc = "retry" =>
              (Len(invocations) = 1 /\ (invocations[1].raised \/ llm = "text"))

C22_Witness ==
    /\ Returned
    /\ llm = "chat"
    /\ Len(invocations) = 2
    /\ invocations[1].raised
    /\ ~invocations[2].raised

\* C23: in a user's log the roles alternate human, assistant, human,
\* assistant, ..., also when run calls for the user are interleaved.
C23_RolesAlternate ==
    \A i \in DOMAIN memory[ex_user] :
        memory[ex_user][i].role = (IF i % 2 = 1 THEN "human" ELSE "assistant")

\* the calls whose run raised: in the generation call or in the trace
Raised == {c \in Calls : ex_pc[c] = "raised"}

\* C24: when the generation call of run raises, or the trace_agent_call
\* after it raises, the call has appended nothing: its human turn is not in
\* the log, and every turn in the log belongs to a call that got past the
\* trace.
C24_FailedRunAppendsNothing ==
    /\ \A c \in Raised : PositionsOf(HumanTurn(c)) = {}
    /\ \A i \in DOMAIN memory[ex_user] :
          \E c \in Calls \ Raised :
              /\ ex_generation[c] = <<"replied">>
              /\ memory[ex_user][i] \in {HumanTurn(c), AssistantTurn(c)}
    /\ (\A c \in Calls : ex_pc[c] \in {"idle", "run", "invoked", "traced", "raised"})
           => memory[ex_user] = <<>>

\* one call failed in the generation call, another in the trace
C24_Witness ==
    /\ Raised = Calls
    /\ \E c, d \in Calls :
          /\ ex_generation[c] = <<"raised">>
          /\ ex_generation[d] = <<"replied">>
    /\ memory[ex_user] = <<>>

\* C25: the prompt-optimization score and the message-triage score depend
\* on the response text only: for the response scored, every other request
\* text gives the same sub-scores and overall.
C25_ScoreIndependentOfRequest ==
    sc_pc = "done" =>
        /\ sc_fn = "prompt" =>
              \A r \in PlainRequests :
                  score_prompt_optimization(r, sc_response) = sc_score
        /\ sc_fn = "email" =>
              \A r \in PlainRequests :
                  score_email_prioritization(r, sc_response) = sc_score

C25_Witness ==
    /\ sc_pc = "done"
    /\ sc_fn = "prompt"
    /\ sc_request # EmptyText
    /\ sc_score.completeness = 10000
    /\ sc_score = score_prompt_optimization(EmptyText, sc_response)

\* C26: the catalog phrases are unique and the stored embeddings are
\* parallel to the catalog: the i-th embedding encodes the i-th phrase, the
\* i-th similarity is the input's similarity to the i-th phrase, and the
\* label returned for an argmax index is the label of that index's phrase.
C26_EmbeddingsParallelToCatalog ==
    /\ \A i, j \in DOMAIN routes :
          routes[i].phrase = routes[j].phrase => i = j
    /\ DOMAIN route_embeddings = DOMAIN routes
    /\ \A i \in DOMAIN routes : route_embeddings[i] = [of |-> routes[i].phrase]
    /\ scores # <<>> =>
          \A i \in DOMAIN routes : scores[i] = user_input.sim[routes[i].phrase]
    /\ (Returned /\ AboveThreshold) => result = routes[argmax(scores)].label

\* the last phrase of the catalog, "urgent", is the best match
C26_Witness ==
    /\ Returned
    /\ AboveThreshold
    /\ argmax(scores) = Len(routes)
    /\ routes[argmax(scores)].phrase = "urgent"
    /\ result = EmailPrioritizerAgent

\* the positions of the response's "urgency_score": <digits> fields
UrgencyFields(text) ==
    {i \in DOMAIN text.numbers :
        text.numbers[i].kind \in {"urgency", "urgency_long"}}

\* those whose value is in the plausible range 1..10
PlausibleFields(text) ==
    {i \in UrgencyFields(text) : text.numbers[i].value \in 1..10}

\* C27: the urgency_consistency returned by score_email_prioritization is
\* 0.5 when the response has no urgency field; otherwise 0.5 plus 0.05 for
\* each field whose value is in 1..10, at most 1.0; fields with a value
\* outside 1..10 add nothing.
C27_UrgencyConsistency ==
    (sc_pc = "done" /\ sc_fn = "email") =>
        sc_score.urgency_consistency =
            (IF UrgencyFields(sc_response) = {} THEN 5000
             ELSE IF Cardinality(PlausibleFields(sc_response)) >= 10 THEN 10000
             ELSE 5000 + 500 * Cardinality(PlausibleFields(sc_response)))

\* three plausible fields and two implausible ones
C27_Witness ==
    /\ sc_pc = "done"
    /\ sc_fn = "email"
    /\ Cardinality(UrgencyFields(sc_response)) = 5
    /\ Cardinality(PlausibleFields(sc_response)) = 3
    /\ sc_score.urgency_consistency = 6500

\* the token count of the response scored
ResponseTokens == simple_token_count(chars_of(sc_response))

\* C28: the clarity sub-score of score_prompt_optimization is fixed by the
\* response's token count n alone: 0.6 for n < 60, 0.7 for n > 400, 0.9
\* otherwise, so that n = 60 and n = 400 score 0.9, the highest value, as do
\* the counts between 80 and 250.
C28_ClarityBands ==
    (sc_pc = "done" /\ sc_fn = "prompt") =>
        /\ ResponseTokens < 60 => sc_score.clarity = 6000
        /\ ResponseTokens > 400 => sc_score.clarity = 7000
        /\ (60 <= ResponseTokens /\ ResponseTokens <= 400) =>
              sc_score.clarity = 9000
        /\ sc_score.clarity <= 9000

C28_Witness ==
    /\ sc_pc = "done"
    /\ sc_fn = "prompt"
    /\ ResponseTokens = 400
    /\ sc_score.clarity = 9000
    /\ sc_score.completeness = 1000

\* ------------------------------------------------------------------------
\* Properties of the agent graph
\* ------------------------------------------------------------------------
HasResumeKeyword(message) ==
    \E k \in {"resume", "cv", "job"} : in_message(k, lower_message(message))

HasEmailKeyword(message) ==
    \E k \in {"email", "inbox"} : in_message(k, lower_message(message))

\* what the priority asks supervisor_node to return for a message
PriorityTarget(message) ==
    CASE HasResumeKeyword(message) -> "ContentRewriterAgent"
      [] ~HasResumeKeyword(message) /\ HasEmailKeyword(message) ->
            "EmailPrioritizerAgent"
      [] OTHER -> "PromptOptimizerAgent"

\* supervisor_node returns the agent node the priority names
SupervisorFollowsPriority ==
    sv_pc = "returned" =>
        /\ sv_result \in AgentNodes
        /\ sv_result = PriorityTarget(sv_message)

\* the graph run is over: END was reached or the run was left by an exception
GraphRunOver == gr_pc \in {"ended", "import_raised"}

\* C29: supervisor_node returns exactly one of the three agent node names
\* with the priority resume keywords, then email keywords, then
\* PromptOptimizerAgent, and every graph run that is over has executed
\* exactly one agent node.
C29_OneAgentByPriority ==
    /\ SupervisorFollowsPriority
    /\ GraphRunOver => Len(gr_executed) = 1 /\ gr_executed[1] \in AgentNodes

\* ------------------------------------------------------------------------
\* Properties of extract_sections
\* ------------------------------------------------------------------------
\* line i is no header and the nearest header above it opens the section
InSection(i, section) ==
    /\ header_of(strip_line(rs_text[i])) = None
    /\ \E h \in 1..(i - 1) :
          /\ header_of(strip_line(rs_text[h])) = section
          /\ \A j \in (h + 1)..i : header_of(strip_line(rs_text[j])) = None

\* the lines of the experience section that are longer than 10 characters
LongExperienceLines ==
    {i \in DOMAIN rs_text :
        InSection(i, "experience") /\ Len(strip_line(rs_text[i])) > 10}

\* the non-empty lines of the skills section
SkillsLines ==
    {i \in DOMAIN rs_text :
        InSection(i, "skills") /\ strip_line(rs_text[i]) # <<>>}

\* C30: every entry of the returned 'experience' list is a complete stripped
\* line longer than 10 characters of the experience section, every entry of
\* the 'skills' list is a comma-separated piece of a non-empty line of the
\* skills section, and no other line adds an entry to either list.
C30_EntriesComeFromSectionLines ==
    rs_pc = "returned" =>
        /\ \A k \in DOMAIN rs_sections.experience :
              \E i \in LongExperienceLines :
                  rs_sections.experience[k] = strip_line(rs_text[i])
        /\ Len(rs_sections.experience) = Cardinality(LongExperienceLines)
        /\ \A k \in DOMAIN rs_sections.skills :
              \E i \in SkillsLines :
                  \E p \in DOMAIN stripped_pieces(strip_line(rs_text[i])) :
                      rs_sections.skills[k] =
                          stripped_pieces(strip_line(rs_text[i]))[p]

====
